---- MODULE Spec2Model ----
(***************************************************************************)
(* Model of src/f5_tts/api_server.py: the TTSServer request pipeline.      *)
(*                                                                         *)
(* Strings that the source writes in Chinese are written here by their     *)
(* English gloss: "Chinese", "English", "Japanese", "Chinese-English",     *)
(* "Japanese-English", "Multilingual" (the default text_language).         *)
(* A message or a path is a sequence of string tokens, so that an f-string *)
(* is the concatenation of its pieces.                                     *)
(***************************************************************************)
EXTENDS Integers, Sequences, FiniteSets, TLC

\* ------------------------------------------------------------------ bounds
\* number of /tts requests a run admits
NumRequests == 2
\* longest ref.txt content (in characters) the store specification reads
MaxRefLen == 3

Requests == 1..NumRequests

\* ------------------------------------------------------- the character root
\* An entry of character_dir is absent, a plain file, or a directory that
\* may hold ref.wav and may hold ref.txt (with its content).
NoFile == <<"<no file>">>
Whitespace == {" "}
Chars == {" ", "h"}
Names == {"alice", "bob"}

RECURSIVE SeqsUpTo(_)
SeqsUpTo(n) ==
    IF n = 0 THEN {<<>>}
    ELSE LET S == SeqsUpTo(n - 1)
         IN  S \cup {Append(s, c) : s \in {t \in S : Len(t) = n - 1}, c \in Chars}

RefTxtContents == SeqsUpTo(MaxRefLen)

Entries ==
    {[kind |-> "absent"], [kind |-> "file"]}
    \cup {[kind |-> "dir", wav |-> w, txt |-> t] :
            w \in BOOLEAN, t \in RefTxtContents \cup {NoFile}}

\* the character roots the request pipeline is run against: alice is a
\* complete character whose transcript carries surrounding whitespace, bob
\* is missing, incomplete or complete
PipelineRoots ==
    {[n \in Names |->
        IF n = "alice"
        THEN [kind |-> "dir", wav |-> TRUE, txt |-> <<" ", "h", " ">>]
        ELSE e] :
     e \in {[kind |-> "absent"],
            [kind |-> "dir", wav |-> FALSE, txt |-> <<"h">>],
            [kind |-> "dir", wav |-> TRUE, txt |-> NoFile],
            [kind |-> "dir", wav |-> TRUE, txt |-> <<"h", "h">>]}}

\* str.strip(): drop leading and trailing whitespace
RECURSIVE lstrip(_)
lstrip(s) ==
    IF s # <<>> /\ Head(s) \in Whitespace THEN lstrip(Tail(s)) ELSE s

RECURSIVE rstrip(_)
rstrip(s) ==
    IF s # <<>> /\ s[Len(s)] \in Whitespace
    THEN rstrip(SubSeq(s, 1, Len(s) - 1)) ELSE s

\* f.read() kept as it is
no_strip(s) == s

strip(s) == rstrip(lstrip(s))

\* Path.exists() of char_dir, char_dir/"ref.wav" and char_dir/"ref.txt"
char_dir_exists(root, character) ==
    character \in DOMAIN root /\ root[character].kind # "absent"

ref_wav_exists(root, character) ==
    /\ character \in DOMAIN root
    /\ root[character].kind = "dir"
    /\ root[character].wav

ref_txt_exists(root, character) ==
    /\ character \in DOMAIN root
    /\ root[character].kind = "dir"
    /\ root[character].txt # NoFile

\* the (None, None) of _get_character_paths
NoPath == <<>>
NoText == <<"<None>">>
Absent == [ref_audio |-> NoPath, ref_text |-> NoText]

\* TTSServer._get_character_paths
get_character_paths(root, character) ==
    IF ~(/\ char_dir_exists(root, character)
         /\ ref_wav_exists(root, character)
         /\ ref_txt_exists(root, character))
    THEN Absent
    ELSE [ref_audio |-> <<"character_dir", character, "ref.wav">>,
          ref_text  |-> strip(root[character].txt)]

\* TTSServer._scan_characters: every subdirectory, mapped to ["default"]
scan_characters(root) ==
    [n \in {m \in DOMAIN root : root[m].kind = "dir"} |-> <<"default">>]

\* ------------------------------------------------------------- TTSRequest
\* a request's fields; floats are written as their decimal literals
TTSRequest(text, character) ==
    [text |-> text, character |-> character, emotion |-> "default",
     text_language |-> "Multilingual", format |-> "wav",
     top_k |-> "50.0", top_p |-> "0.95", batch_size |-> 1,
     speed |-> "1.0", temperature |-> "0.7",
     save_temp |-> FALSE, stream |-> FALSE]

\* _load_params_config: the built-in configuration
params_config ==
    [supported_languages |->
        {"Chinese", "English", "Japanese", "Chinese-English",
         "Japanese-English", "Multilingual"},
     supported_formats |-> {"wav", "mp3", "ogg"}]

\* urllib.parse.unquote over a sequence of characters: %XY becomes the
\* character with hex code XY, anything else is kept
HexDigits == {"1", "4"}
HexChar(a, b) ==
    CASE a = "4" /\ b = "1" -> "A"
      [] a = "4" /\ b = "4" -> "D"
      [] a = "1" /\ b = "1" -> "<DC1>"
      [] a = "1" /\ b = "4" -> "<DC4>"

RECURSIVE unquote(_)
unquote(s) ==
    IF s = <<>> THEN <<>>
    ELSE IF Len(s) >= 3 /\ s[1] = "%" /\ s[2] \in HexDigits /\ s[3] \in HexDigits
         THEN <<HexChar(s[2], s[3])>> \o unquote(SubSeq(s, 4, Len(s)))
         ELSE <<Head(s)>> \o unquote(Tail(s))

\* what a client can send to /tts: a JSON body (request is not None), or no
\* body and the query parameters text and character
NoBody == [text |-> <<"<no body>">>]
BodyTexts == {<<>>, <<"x">>}
QueryTexts == {<<>>, <<"x">>, <<"%", "4", "1">>}
Languages == {"English", "Klingon"}
Formats == {"wav", "xyz"}

\* a body that sets the speed and the sampling parameters itself
TunedBody(c) ==
    [TTSRequest(<<"x">>, c) EXCEPT !.speed = "1.5", !.top_k = "10.0",
        !.top_p = "0.5", !.temperature = "1.2", !.batch_size = 2]

Bodies ==
    {[TTSRequest(t, c) EXCEPT !.text_language = l, !.format = f] :
        t \in BodyTexts, c \in Names, l \in Languages, f \in Formats}
    \cup {TunedBody(c) : c \in Names}

Ingress ==
    {[request |-> b, text |-> <<>>, character |-> "default"] : b \in Bodies}
    \cup {[request |-> NoBody, text |-> t, character |-> c] :
            t \in QueryTexts, c \in Names}

\* ---------------------------------------------------------------- state
VARIABLES
    root,       \* the entries of character_dir
    pc,         \* where each request's handler stands
    ingress,    \* what each request's client sent
    params,     \* the handler's params
    loop,       \* the requests whose handler the event loop is running
    ref,        \* the handler's ref_audio, ref_text
    temp,       \* the handler's temp_file
    files,      \* the temp directory: file id -> content
    calls,      \* the arguments of each request's tts_engine.infer call
    wav,        \* the handler's wav, sr
    raised,     \* the statement that raised in each failed request
    response,   \* the response each request's client received
    listing,    \* the last answer of GET /character_list
    resolved    \* the last answer of _get_character_paths asked directly

vars == <<root, pc, ingress, params, loop, ref, temp, files, calls, wav,
          raised, response, listing, resolved>>

NoParams == [text |-> <<"<no params>">>]
NoIngress == [request |-> NoBody, text |-> <<"<none>">>, character |-> "<none>"]
Unresolved == [ref_audio |-> <<"<unset>">>, ref_text |-> <<"<unset>">>]
NoTemp == [id |-> 0, suffix |-> <<>>]
NoContent == <<"<no file>">>
EmptyContent == <<>>
NoCall == [ref_file |-> <<"<no call>">>]
NoWav == <<"<no wav>">>
NoResponse == [status_code |-> 0]
NoListing == [n \in {"<no listing>"} |-> <<>>]
NoAnswer == [character |-> "<none>", found |-> Unresolved]
NotRaised == "none"
TempIds == 1..NumRequests

Init ==
    /\ root \in PipelineRoots
    /\ pc = [r \in Requests |-> "idle"]
    /\ ingress = [r \in Requests |-> NoIngress]
    /\ params = [r \in Requests |-> NoParams]
    /\ loop = {}
    /\ ref = [r \in Requests |-> Unresolved]
    /\ temp = [r \in Requests |-> NoTemp]
    /\ files = [i \in TempIds |-> NoContent]
    /\ calls = [r \in Requests |-> NoCall]
    /\ wav = [r \in Requests |-> NoWav]
    /\ raised = [r \in Requests |-> NotRaised]
    /\ response = [r \in Requests |-> NoResponse]
    /\ listing = NoListing
    /\ resolved = NoAnswer

\* ------------------------------------------------------------ exceptions
HTTPException(status_code, detail) ==
    [type |-> "HTTPException", status_code |-> status_code, detail |-> detail]

Error(type, message) ==
    [type |-> type, status_code |-> 0, detail |-> message]

\* str(e): starlette's HTTPException prints "<status_code>: <detail>" (its
\* releases before __str__ was defined print the empty string; the status of
\* the response does not depend on it), any other exception prints its
\* message
str(e) ==
    IF e.type = "HTTPException"
    THEN <<ToString(e.status_code), ": ">> \o e.detail
    ELSE e.detail

\* the response FastAPI builds from an HTTPException that leaves the handler
ErrorResponse(e) ==
    [status_code |-> e.status_code, detail |-> e.detail, audio |-> NoContent,
     media_type |-> <<"application/json">>, filename |-> <<>>]

\* the except clause answering with the status of a client error
except_Exception_400(e) == HTTPException(400, str(e))

\* lines 189-191: `except Exception as e` catches whatever the try block
\* raised, HTTPException included, and raises HTTPException(500, str(e))
except_Exception(e) == HTTPException(500, str(e))

\* an except clause that logs the error and raises nothing
Raise_LogOnly(r, at, e) ==
    /\ pc' = [pc EXCEPT ![r] = "Failed"]
    /\ raised' = [raised EXCEPT ![r] = at]
    /\ response' = response
    /\ loop' = {}

\* the handler of request r ends by raising e at statement `at`
Raise(r, at, e) ==
    /\ pc' = [pc EXCEPT ![r] = "Failed"]
    /\ raised' = [raised EXCEPT ![r] = at]
    /\ response' = [response EXCEPT ![r] = ErrorResponse(except_Exception(e))]
    /\ loop' = {}

\* ------------------------------------------------------ the /tts handler
\* a client sends a request; it waits for the event loop
Arrive(r) ==
    /\ pc[r] = "idle"
    /\ \A q \in Requests : q < r => pc[q] # "idle"
    /\ pc' = [pc EXCEPT ![r] = "pending"]
    /\ UNCHANGED <<root, ingress, params, loop, ref, temp, files, calls, wav,
                   raised, response, listing, resolved>>

\* a handler that is started whatever the event loop is running
EventLoopShared == TRUE

\* the handler is `async def` and awaits nothing, and run() serves the app
\* object from one process: the event loop starts a handler only when it
\* runs no other handler, and runs it to its end
EventLoopFree == loop = {}

\* lines 145-151: params from the body, or from the query parameters
BuildParams(req) ==
    IF req.request = NoBody
    THEN TTSRequest(unquote(req.text), req.character)
    ELSE req.request

Dispatch(r, req) ==
    /\ pc[r] = "pending"
    /\ EventLoopFree
    /\ loop' = {r}
    /\ ingress' = [ingress EXCEPT ![r] = req]
    /\ params' = [params EXCEPT ![r] = BuildParams(req)]
    /\ pc' = [pc EXCEPT ![r] = "Received"]
    /\ UNCHANGED <<root, ref, temp, files, calls, wav, raised, response,
                   listing, resolved>>

\* lines 153-158: the exception the validation raises, if any
NoError == Error("none", <<>>)

\* the validation without its check of text_language
ValidationErrorTextOnly(p) ==
    IF p.text = <<>>
    THEN HTTPException(400, <<"Text is required">>)
    ELSE NoError

ValidationError(p) ==
    IF p.text = <<>>
    THEN HTTPException(400, <<"Text is required">>)
    ELSE IF p.text_language \notin params_config.supported_languages
         THEN HTTPException(400, <<"Unsupported language: ", p.text_language>>)
         ELSE NoError

Validate(r) ==
    /\ pc[r] = "Received" /\ loop = {r}
    /\ IF ValidationError(params[r]) # NoError
       THEN Raise(r, "validate", ValidationError(params[r]))
       ELSE /\ pc' = [pc EXCEPT ![r] = "Validated"]
            /\ UNCHANGED <<loop, raised, response>>
    /\ UNCHANGED <<root, ingress, params, ref, temp, files, calls, wav,
                   listing, resolved>>

\* lines 160-166
Resolve(r) ==
    /\ pc[r] = "Validated" /\ loop = {r}
    /\ LET found == get_character_paths(root, params[r].character)
       IN  /\ ref' = [ref EXCEPT ![r] = found]
           /\ IF found.ref_audio = NoPath
              THEN Raise(r, "resolve",
                         HTTPException(400, <<"Character not found: ",
                                              params[r].character>>))
              ELSE /\ pc' = [pc EXCEPT ![r] = "CharacterResolved"]
                   /\ UNCHANGED <<loop, raised, response>>
    /\ UNCHANGED <<root, ingress, params, temp, files, calls, wav,
                   listing, resolved>>

\* a temp file opened under one fixed name
FixedTempId == CHOOSE i \in TempIds : \A j \in TempIds : i <= j

\* line 169: NamedTemporaryFile(suffix, delete=False) creates an empty file
\* under a name no existing file has
FreshTempId == CHOOSE i \in TempIds :
    /\ files[i] = NoContent
    /\ \A j \in TempIds : files[j] = NoContent => i <= j

TempName(t) == <<"tmp", ToString(t.id)>> \o t.suffix

OpenTemp(r) ==
    /\ pc[r] = "CharacterResolved" /\ loop = {r}
    /\ temp' = [temp EXCEPT ![r] =
                  [id |-> FreshTempId, suffix |-> <<".", params[r].format>>]]
    /\ files' = [files EXCEPT ![FreshTempId] = EmptyContent]
    /\ pc' = [pc EXCEPT ![r] = "TempOpen"]
    /\ UNCHANGED <<root, ingress, params, loop, ref, calls, wav, raised,
                   response, listing, resolved>>

\* the call with the speed left at its default
InferArgsDefaultSpeed(p, found) ==
    [ref_file |-> found.ref_audio, ref_text |-> found.ref_text,
     gen_text |-> p.text, speed |-> "1.0", remove_silence |-> TRUE]

\* lines 170-176: the arguments of tts_engine.infer
InferArgs(p, found) ==
    [ref_file |-> found.ref_audio, ref_text |-> found.ref_text,
     gen_text |-> p.text, speed |-> p.speed, remove_silence |-> TRUE]

CallInfer(r) ==
    /\ pc[r] = "TempOpen" /\ loop = {r}
    /\ calls' = [calls EXCEPT ![r] = InferArgs(params[r], ref[r])]
    /\ pc' = [pc EXCEPT ![r] = "InEngine"]
    /\ UNCHANGED <<root, ingress, params, loop, ref, temp, files, wav, raised,
                   response, listing, resolved>>

\* the engine returns a waveform or raises
EngineOutcomes == {"ok", "error"}
Waveform(r) == <<"wav of call", ToString(r)>>
EngineError == Error("RuntimeError", <<"engine failure">>)

InferReturn(r, outcome) ==
    /\ pc[r] = "InEngine" /\ loop = {r}
    /\ IF outcome = "ok"
       THEN /\ wav' = [wav EXCEPT ![r] = Waveform(r)]
            /\ pc' = [pc EXCEPT ![r] = "Synthesized"]
            /\ UNCHANGED <<loop, raised, response>>
       ELSE /\ Raise(r, "infer", EngineError)
            /\ UNCHANGED wav
    /\ UNCHANGED <<root, ingress, params, ref, temp, files, calls,
                   listing, resolved>>

\* line 179: sf.write takes the container from the file extension; it
\* raises for an extension it does not know, and may fail for one it knows
sf_formats == {"wav", "mp3", "ogg", "flac"}
Encoded(w, format) == <<"audio", format>> \o w
WriteOutcomes(t) ==
    IF t.suffix[2] \in sf_formats THEN {"ok", "error"} ELSE {"unknown format"}
WriteError(outcome, t) ==
    IF outcome = "unknown format"
    THEN Error("TypeError",
               <<"No format specified and unable to get format from file extension: ">>
               \o TempName(t))
    ELSE Error("LibsndfileError", <<"Error opening ">> \o TempName(t))

Write(r, outcome) ==
    /\ pc[r] = "Synthesized" /\ loop = {r}
    /\ outcome \in WriteOutcomes(temp[r])
    /\ IF outcome = "ok"
       THEN /\ files' = [files EXCEPT ![temp[r].id] =
                           Encoded(wav[r], temp[r].suffix[2])]
            /\ pc' = [pc EXCEPT ![r] = "Materialized"]
            /\ UNCHANGED <<loop, raised, response>>
       ELSE /\ Raise(r, "write", WriteError(outcome, temp[r]))
            /\ UNCHANGED files
    /\ UNCHANGED <<root, ingress, params, ref, temp, calls, wav,
                   listing, resolved>>

\* lines 182-187: the arguments of FileResponse are evaluated first, and
\* BackgroundTask is a name the module never imports or defines
ModuleNames ==
    {"FastAPI", "HTTPException", "FileResponse", "JSONResponse",
     "CORSMiddleware", "uvicorn", "urllib", "json", "os", "tempfile",
     "Dict", "Optional", "List", "Tuple", "Union", "BaseModel", "logging",
     "Path", "sf", "F5TTS", "seed_everything", "TTSRequest", "TTSServer"}

NameError(name) ==
    Error("NameError", <<"name '", name, "' is not defined">>)

BuildResponse(r) ==
    /\ pc[r] = "Materialized" /\ loop = {r}
    /\ "BackgroundTask" \notin ModuleNames
    /\ Raise(r, "response", NameError("BackgroundTask"))
    /\ UNCHANGED <<root, ingress, params, ref, temp, files, calls, wav,
                   listing, resolved>>

\* the handler, serving the requests that clients send from `sent`
text_to_speech_from(r, sent) ==
    \/ \E req \in sent : Dispatch(r, req)
    \/ Validate(r)
    \/ Resolve(r)
    \/ OpenTemp(r)
    \/ CallInfer(r)
    \/ \E outcome \in EngineOutcomes : InferReturn(r, outcome)
    \/ \E outcome \in {"ok", "error", "unknown format"} : Write(r, outcome)
    \/ BuildResponse(r)

text_to_speech(r) == text_to_speech_from(r, Ingress)

Next ==
    \E r \in Requests : Arrive(r) \/ text_to_speech(r)

Spec == Init /\ [][Next]_vars

\* The handler under the scheduling of the event loop: it runs every handler
\* that is ready, and every call of the engine and of the encoder returns
\* or raises. The requests sent are one for each way through the handler:
\* the query shape with every text and character, and the bodies for alice
\* with every text_language and format.
LiveIngress ==
    {req \in Ingress :
        \/ req.request = NoBody
        \/ /\ req.request.text = <<"x">>
           /\ req.request.character = "alice"
           /\ req.request.speed = "1.0"}

NextLive ==
    \E r \in Requests : Arrive(r) \/ text_to_speech_from(r, LiveIngress)

FairSpec ==
    /\ Init
    /\ [][NextLive]_vars
    /\ \A r \in Requests : WF_vars(text_to_speech_from(r, LiveIngress))

\* ------------------------------------------------- the character store
\* every state of the character root
AllRoots == [Names -> Entries]

InitStore ==
    /\ root \in AllRoots
    /\ pc = [r \in Requests |-> "idle"]
    /\ ingress = [r \in Requests |-> NoIngress]
    /\ params = [r \in Requests |-> NoParams]
    /\ loop = {}
    /\ ref = [r \in Requests |-> Unresolved]
    /\ temp = [r \in Requests |-> NoTemp]
    /\ files = [i \in TempIds |-> NoContent]
    /\ calls = [r \in Requests |-> NoCall]
    /\ wav = [r \in Requests |-> NoWav]
    /\ raised = [r \in Requests |-> NotRaised]
    /\ response = [r \in Requests |-> NoResponse]
    /\ listing = NoListing
    /\ resolved = NoAnswer

\* GET /character_list
get_character_list ==
    /\ EventLoopFree
    /\ listing' = scan_characters(root)
    /\ UNCHANGED <<root, pc, ingress, params, loop, ref, temp, files, calls,
                   wav, raised, response, resolved>>

\* _get_character_paths(character) for a name of the root or another name
LookupNames == Names \cup {"default"}

Lookup(character) ==
    /\ resolved' = [character |-> character,
                    found |-> get_character_paths(root, character)]
    /\ UNCHANGED <<root, pc, ingress, params, loop, ref, temp, files, calls,
                   wav, raised, response, listing>>

NextStore ==
    \/ get_character_list
    \/ \E character \in LookupNames : Lookup(character)

StoreSpec == InitStore /\ [][NextStore]_vars

\* ================================================================ claims
Terminal(r) == pc[r] \in {"Delivered", "Failed"}
Quiescent == \A r \in Requests : pc[r] = "idle" \/ Terminal(r)
Artifacts == {i \in TempIds : files[i] # NoContent}

\* a character the root holds with both reference files
HasBothFiles(n) ==
    /\ n \in DOMAIN root
    /\ root[n].kind = "dir"
    /\ root[n].wav
    /\ root[n].txt # NoFile

EmptyText(r) == params[r] # NoParams /\ params[r].text = <<>>
BadLanguage(r) ==
    /\ params[r] # NoParams
    /\ params[r].text_language \notin params_config.supported_languages
NoCharacter(r) == params[r] # NoParams /\ ~HasBothFiles(params[r].character)

\* C1: once every request has reached a terminal state, no temp file that a
\* request created still exists.
C1_NoArtifactLeft == Quiescent => Artifacts = {}

\* C3: a request with non-empty text, a supported text_language, a supported
\* format and a character that has both reference files, whose engine call
\* and encoding both succeeded, ends Delivered with status 200, the audio
\* bytes, Content-Type audio/<format> and filename tts_output.<format>.
C3_ValidRequestDelivered ==
    \A r \in Requests :
        ( /\ Terminal(r)
          /\ ~EmptyText(r) /\ ~BadLanguage(r) /\ ~NoCharacter(r)
          /\ params[r].format \in params_config.supported_formats
          /\ wav[r] # NoWav
          /\ files[temp[r].id] = Encoded(wav[r], params[r].format) )
        => /\ pc[r] = "Delivered"
           /\ response[r].status_code = 200
           /\ response[r].audio = Encoded(wav[r], params[r].format)
           /\ response[r].media_type = <<"audio/", params[r].format>>
           /\ response[r].filename = <<"tts_output.", params[r].format>>

\* C4: a request that fails validation ends with status 400; empty text
\* with the detail "Text is required", an unsupported text_language with a
\* detail that names the language.
C4_ValidationFailureIs400 ==
    \A r \in Requests :
        /\ (Terminal(r) /\ EmptyText(r))
           => /\ pc[r] = "Failed"
              /\ response[r].status_code = 400
              /\ response[r].detail = <<"Text is required">>
        /\ (Terminal(r) /\ ~EmptyText(r) /\ BadLanguage(r))
           => /\ pc[r] = "Failed"
              /\ response[r].status_code = 400
              /\ \E i \in DOMAIN response[r].detail :
                    response[r].detail[i] = params[r].text_language

\* C5: a validated request whose character does not resolve ends with status
\* 400 and the detail "Character not found: <name>".
C5_CharacterNotFoundIs400 ==
    \A r \in Requests :
        (Terminal(r) /\ ~EmptyText(r) /\ ~BadLanguage(r) /\ NoCharacter(r))
        => /\ pc[r] = "Failed"
           /\ response[r].status_code = 400
           /\ response[r].detail =
                <<"Character not found: ", params[r].character>>

\* C6: the engine is never invoked for a request with empty text, with an
\* unsupported text_language or with a character that does not resolve.
C6_NoEngineForRejected ==
    \A r \in Requests :
        (EmptyText(r) \/ BadLanguage(r) \/ NoCharacter(r))
        => /\ calls[r] = NoCall
           /\ wav[r] = NoWav
           /\ pc[r] \notin {"InEngine", "Synthesized", "Materialized"}

C6_Witness ==
    \E r, q \in Requests :
        /\ pc[r] = "Failed" /\ ~EmptyText(r) /\ BadLanguage(r)
        /\ pc[q] = "Failed" /\ ~EmptyText(q) /\ ~BadLanguage(q) /\ NoCharacter(q)
        /\ raised[q] = "resolve"

\* C7: at most one request is inside tts_engine.infer at any time.
C7_EngineSerialized ==
    Cardinality({r \in Requests : pc[r] = "InEngine"}) <= 1

C7_Witness ==
    \E r, q \in Requests :
        /\ pc[r] = "InEngine"
        /\ pc[q] = "pending"

\* C8: a request whose engine call raised, or whose encoding raised, ends
\* Failed with status 500 and a detail message, and carries no audio.
C8_EngineOrEncodingFailureIs500 ==
    \A r \in Requests :
        raised[r] \in {"infer", "write"}
        => /\ pc[r] = "Failed"
           /\ response[r].status_code = 500
           /\ response[r].audio = NoContent
           /\ response[r].detail # <<>>
           /\ raised[r] = "infer" => response[r].detail = EngineError.detail

C8_Witness ==
    \E r, q \in Requests :
        /\ raised[r] = "infer"
        /\ raised[q] = "write"

\* C9: GET /character_list answers exactly the names of the subdirectories
\* that hold both ref.wav and ref.txt, each mapped to ["default"].
C9_ListingExact ==
    listing # NoListing
    => /\ DOMAIN listing = {n \in Names : HasBothFiles(n)}
       /\ \A n \in DOMAIN listing : listing[n] = <<"default">>

\* t is s without its leading and trailing whitespace
IsTrimOf(t, s) ==
    /\ \E i, j \in 0..Len(s) :
          /\ i + j <= Len(s)
          /\ t = SubSeq(s, i + 1, Len(s) - j)
          /\ \A k \in 1..i : s[k] \in Whitespace
          /\ \A k \in (Len(s) - j + 1)..Len(s) : s[k] \in Whitespace
    /\ t # <<>> => (t[1] \notin Whitespace /\ t[Len(t)] \notin Whitespace)

\* C10: _get_character_paths(name) answers (None, None) exactly when the
\* directory name is missing or lacks ref.wav or lacks ref.txt; otherwise it
\* answers character_dir/name/ref.wav and the content of ref.txt without
\* its surrounding whitespace.
C10_ResolveExact ==
    resolved # NoAnswer
    => LET n == resolved.character
       IN  IF HasBothFiles(n)
           THEN /\ resolved.found.ref_audio = <<"character_dir", n, "ref.wav">>
                /\ IsTrimOf(resolved.found.ref_text, root[n].txt)
           ELSE resolved.found = Absent

C10_Witness ==
    /\ resolved # NoAnswer
    /\ HasBothFiles(resolved.character)
    /\ resolved.found.ref_text # root[resolved.character].txt
    /\ resolved.found.ref_text # <<>>

\* C11: a request's temp file is created only after its synthesis has
\* succeeded: a request that has a temp file has a waveform, so no temp file
\* exists for a request that awaits the engine or whose engine call failed.
C11_ArtifactAfterSynthesis ==
    \A r \in Requests :
        /\ temp[r] # NoTemp => wav[r] # NoWav
        /\ pc[r] \in {"Received", "Validated", "CharacterResolved",
                      "TempOpen", "InEngine"} => temp[r] = NoTemp
        /\ raised[r] = "infer" => temp[r] = NoTemp

\* C12: a request that has reached Materialized never ends Failed.
C12_MaterializedNeverFails ==
    [][\A r \in Requests : pc[r] = "Materialized" => pc'[r] # "Failed"]_vars

\* C13: every request that was sent eventually reaches a terminal state,
\* never leaves it, and has a response exactly when it is terminal, a
\* response that never changes.
C13_EveryRequestTerminates ==
    /\ \A r \in Requests : (pc[r] = "pending") ~> Terminal(r)
    /\ [](\A r \in Requests : Terminal(r) <=> response[r] # NoResponse)
    /\ [][\A r \in Requests :
            /\ Terminal(r) => pc'[r] = pc[r]
            /\ response[r] # NoResponse => response'[r] = response[r]]_vars

C13_Witness ==
    /\ \A r \in Requests : Terminal(r) /\ response[r] # NoResponse
    /\ \E r, q \in Requests : raised[r] = "validate" /\ raised[q] = "response"

\* C16: every call of tts_engine.infer carries remove_silence = True, and the
\* reference audio path, the reference text, the target text and the speed
\* of the request that issued it.
C16_InferArgsOfOwnRequest ==
    \A r \in Requests :
        calls[r] # NoCall
        => /\ calls[r].remove_silence = TRUE
           /\ calls[r].ref_file =
                <<"character_dir", params[r].character, "ref.wav">>
           /\ IsTrimOf(calls[r].ref_text, root[params[r].character].txt)
           /\ calls[r].gen_text = params[r].text
           /\ calls[r].speed = params[r].speed

C16_Witness ==
    \E r, q \in Requests :
        /\ calls[r] # NoCall /\ calls[q] # NoCall
        /\ calls[r].ref_file # calls[q].ref_file
        /\ calls[r].ref_text # calls[q].ref_text
        /\ calls[r].gen_text # calls[q].gen_text
        /\ calls[r].speed # calls[q].speed

\* C17: the call of tts_engine.infer issued for a request receives that
\* request's top_k, top_p, temperature and batch_size.
C17_SamplingParamsPassed ==
    \A r \in Requests :
        calls[r] # NoCall
        => /\ {"top_k", "top_p", "temperature", "batch_size"}
                \subseteq DOMAIN calls[r]
           /\ calls[r].top_k = params[r].top_k
           /\ calls[r].top_p = params[r].top_p
           /\ calls[r].temperature = params[r].temperature
           /\ calls[r].batch_size = params[r].batch_size

UnsupportedFormat(r) ==
    /\ params[r] # NoParams
    /\ params[r].format \notin params_config.supported_formats

\* C14: for a request whose format is outside the supported formats the
\* engine is never called, and such a request (its text, text_language and
\* character being in order) ends Failed with status 400.
C14_UnsupportedFormatRejected ==
    \A r \in Requests :
        UnsupportedFormat(r)
        => /\ calls[r] = NoCall
           /\ pc[r] \notin {"InEngine", "Synthesized", "Materialized"}
           /\ (Terminal(r) /\ ~EmptyText(r) /\ ~BadLanguage(r) /\ ~NoCharacter(r))
              => (pc[r] = "Failed" /\ response[r].status_code = 400)

\* C15: while one request is inside the engine call, any other request that
\* has been sent can be admitted, that is, its handler can be started.
C15_AdmissionNotBlocked ==
    \A r, q \in Requests :
        (pc[r] = "InEngine" /\ pc[q] = "pending")
        => ENABLED (\E req \in Ingress : Dispatch(q, req))

\* C18: a query-style call with text t and character c yields the params of
\* the body {text: t, character: c}, every other field at its default.
BodyIngress(t, c) ==
    [request |-> TTSRequest(t, c), text |-> <<>>, character |-> "default"]

C18_IngressShapesConverge ==
    \A r \in Requests :
        (params[r] # NoParams /\ ingress[r].request = NoBody)
        => /\ params[r] =
                BuildParams(BodyIngress(ingress[r].text, ingress[r].character))
           /\ params[r].text = ingress[r].text
           /\ params[r].character = ingress[r].character
           /\ params[r].text_language = "Multilingual"
           /\ params[r].format = "wav"
           /\ params[r].top_k = "50.0"
           /\ params[r].top_p = "0.95"
           /\ params[r].batch_size = 1
           /\ params[r].speed = "1.0"
           /\ params[r].temperature = "0.7"

\* C19: no two requests hold the same temp file, a request's temp file holds
\* nothing until that request writes it and then the audio encoded from that
\* request's own waveform, and a response carries no audio of another
\* request.
Written(r) == pc[r] = "Materialized" \/ raised[r] = "response"

C19_ArtifactsDisjoint ==
    /\ \A r, q \in Requests :
          (r # q /\ temp[r] # NoTemp /\ temp[q] # NoTemp)
          => temp[r].id # temp[q].id
    /\ \A r \in Requests :
          /\ (temp[r] # NoTemp /\ ~Written(r))
             => files[temp[r].id] = EmptyContent
          /\ Written(r)
             => /\ wav[r] = Waveform(r)
                /\ files[temp[r].id] = Encoded(Waveform(r), params[r].format)
          /\ response[r] # NoResponse
             => response[r].audio
                  \in {NoContent, Encoded(Waveform(r), params[r].format)}

C19_Witness ==
    \E r, q \in Requests :
        /\ r # q
        /\ Written(r) /\ Written(q)
        /\ files[temp[r].id] # files[temp[q].id]

\* C20: two requests with the same params that failed at the same statement
\* with status 500 get the same detail: the detail does not depend on the
\* temp file's path or on another server-internal value.
C20_DetailHidesInternals ==
    \A r, q \in Requests :
        ( /\ pc[r] = "Failed" /\ pc[q] = "Failed"
          /\ raised[r] \in {"infer", "write", "response"}
          /\ raised[r] = raised[q]
          /\ params[r] = params[q] )
        => response[r].detail = response[q].detail

====
